---- MODULE Spec2Model ----
(***************************************************************************)
(* The compute pollsters of ceilometer/compute/pollsters.py: the four      *)
(* producers (InstancePollster, DiskIOPollster, CPUPollster, NetPollster), *)
(* the per-cycle cache of the disk pollster and the process-wide           *)
(* utilization_map of the CPU pollster.                                    *)
(*                                                                         *)
(* One action is one call of a pollster's get_counters, consumed to        *)
(* exhaustion by its caller.  The hypervisor inspector, the instance       *)
(* descriptor and the wall clock are inputs of the call.                   *)
(***************************************************************************)
EXTENDS Integers, Sequences, FiniteSets, TLC

VARIABLES
    cache,               \* the cycle cache handed to get_counters
    utilization_map,     \* CPUPollster.utilization_map: id -> <<time, timestamp>>
    inspect_disks_calls, \* inspector.inspect_disks calls of this cycle, per instance name
    out,                 \* the last get_counters call: its inputs, what it yielded, whether it raised
    running              \* the get_cpu_util calls in flight, per thread: the line reached and the locals

vars == <<cache, utilization_map, inspect_disks_calls, out, running>>

(***************************************************************************)
(* Bounds of the model.                                                    *)
(***************************************************************************)
MaxDisks == 2      \* block devices one inspect_disks call enumerates
MaxVnics == 2      \* vNICs one inspect_vnics call enumerates
MaxCalls == 2      \* inspect_disks calls per instance name and cycle

(***************************************************************************)
(* Program constants.                                                      *)
(***************************************************************************)
MicrosPerSecond == 1000000
NanosPerMicro == 1000
SecondsPerDay == 86400
Percent == 100

CACHE_KEY_DISK == "diskio"
TYPE_GAUGE == "gauge"
TYPE_CUMULATIVE == "cumulative"

(***************************************************************************)
(* Python values.  A missing attribute or key is the string Missing; its   *)
(* access raises.  None is NoneStr where a string is expected, None where  *)
(* a dict is expected and the empty tuple where a tuple is expected.       *)
(***************************************************************************)
Missing == "<missing>"
NoneStr == "<None>"
None == [none |-> TRUE]

Err(kind) == [exc |-> kind]
IsErr(x) == "exc" \in DOMAIN x

EmptyMap == [k \in {} |-> 0]
Put(m, k, v) == [x \in (DOMAIN m) \cup {k} |-> IF x = k THEN v ELSE m[x]]

(***************************************************************************)
(* The instance descriptors the orchestrator hands in.  Two instances,     *)
(* each seen complete or with one attribute missing.                       *)
(***************************************************************************)
Ids == {"i-1", "i-2"}

InstanceNameOf(id) == IF id = "i-1" THEN "instance-00000001" ELSE "instance-00000002"

InstanceNames == {InstanceNameOf(id) : id \in Ids}

CompleteInstance(id) ==
    [ id            |-> id,
      name          |-> IF id = "i-1" THEN "vm-one" ELSE "vm-two",
      instance_name |-> InstanceNameOf(id),
      user_id       |-> "user-1",
      tenant_id     |-> "tenant-1",
      hostId        |-> "host-1",
      flavor        |-> [id |-> "1", name |-> "m1.small"],
      metadata      |-> EmptyMap ]

Instances ==
    { CompleteInstance(id) : id \in Ids }
    \cup { [CompleteInstance("i-1") EXCEPT !.user_id = Missing],
           [CompleteInstance("i-2") EXCEPT !.hostId = Missing],
           [CompleteInstance("i-1") EXCEPT !.flavor = None] }

(***************************************************************************)
(* A generator's body is a sequence of attempts, each a Sample or an       *)
(* exception; its consumer receives the samples before the first           *)
(* exception.                                                              *)
(***************************************************************************)
Failed(attempts) == \E i \in DOMAIN attempts : IsErr(attempts[i])

FirstErr(attempts) ==
    CHOOSE i \in DOMAIN attempts :
        IsErr(attempts[i]) /\ \A j \in 1..(i - 1) : ~IsErr(attempts[j])

Yielded(attempts) ==
    IF Failed(attempts) THEN SubSeq(attempts, 1, FirstErr(attempts) - 1)
    ELSE attempts

(***************************************************************************)
(* Dictionary keys as strings that can be taken apart: a key is the        *)
(* sequence of its pieces, every '.' and every '_' a piece of its own.     *)
(* A metadata value is its length when it is a string.                     *)
(***************************************************************************)
Key1(a) == << a >>
Key2(a, b) == << a, "_", b >>
Key3(a, b, c) == << a, "_", b, "_", c >>

reserved_metadata_namespace == << << "metering", "." >> >>
reserved_metadata_length == 256

INSTANCE_PROPERTIES ==
    { Key2("reservation", "id"), Key1("architecture"),
      Key2("OS-EXT-AZ:availability", "zone"), Key2("kernel", "id"),
      Key2("os", "type"), Key2("ramdisk", "id"), Key2("disk", "gb"),
      Key2("ephemeral", "gb"), Key2("memory", "mb"), Key2("root", "gb"),
      Key1("vcpus") }

\* The keys _get_metadata_from_object has set when it hands the dictionary
\* to _add_reserved_user_metadata.
MetadataKeys ==
    { Key2("display", "name"), Key1("name"), Key2("instance", "type"),
      Key1("host"), Key1("flavor"), Key1("image"), Key2("image", "ref"),
      Key3("image", "ref", "url") }
    \cup INSTANCE_PROPERTIES

StartsWith(k, prefix) ==
    Len(k) >= Len(prefix) /\ SubSeq(k, 1, Len(prefix)) = prefix

\* k[len(prefix):].replace('.', '_')
Stripped(k, prefix) ==
    [ i \in 1..(Len(k) - Len(prefix)) |->
          IF k[Len(prefix) + i] = "." THEN "_" ELSE k[Len(prefix) + i] ]

\* v[:limit] if isinstance(v, basestring) else v
Limited(v, limit) ==
    IF "chars" \in DOMAIN v /\ v.chars > limit THEN [chars |-> limit] ELSE v

Reserved(instance_metadata, taken, prefix) ==
    { k \in DOMAIN instance_metadata :
          StartsWith(k, prefix) /\ Stripped(k, prefix) \notin taken }

\* dict(...) of one prefix; of two keys that strip to the same key one wins.
PrefixMetadata(instance_metadata, taken, prefix, limit) ==
    [ u \in { Stripped(k, prefix) :
                 k \in Reserved(instance_metadata, taken, prefix) } |->
          Limited(instance_metadata[
                      CHOOSE k \in Reserved(instance_metadata, taken, prefix) :
                          Stripped(k, prefix) = u],
                  limit) ]

\* dict.update
Update(d, md) ==
    [ k \in (DOMAIN d) \cup (DOMAIN md) |->
          IF k \in DOMAIN md THEN md[k] ELSE d[k] ]

RECURSIVE UserMetadata(_, _, _, _)
UserMetadata(instance_metadata, taken, prefixes, limit) ==
    IF prefixes = <<>> THEN EmptyMap
    ELSE Update(UserMetadata(instance_metadata, taken,
                             SubSeq(prefixes, 1, Len(prefixes) - 1), limit),
                PrefixMetadata(instance_metadata, taken,
                               prefixes[Len(prefixes)], limit))

\* Every reserved key kept, whatever the dictionary holds already.
_add_reserved_user_metadata_shadowing(instance, taken) ==
    UserMetadata(instance.metadata, {}, reserved_metadata_namespace,
                 reserved_metadata_length)

\* What goes under 'user_metadata', the empty map when nothing does.
_add_reserved_user_metadata(instance, taken) ==
    UserMetadata(instance.metadata, taken, reserved_metadata_namespace,
                 reserved_metadata_length)

(***************************************************************************)
(* _get_metadata_from_object: of its values, the ones that decide whether  *)
(* it raises and the ones derived from the flavor; of its keys, all        *)
(* (MetadataKeys).                                                         *)
(***************************************************************************)
WithUserMetadata(instance, user_metadata) ==
    IF user_metadata = EmptyMap
    THEN [ display_name  |-> instance.name,
           name          |-> instance.instance_name,
           instance_type |-> IF instance.flavor # None THEN instance.flavor.id
                             ELSE NoneStr,
           host          |-> instance.hostId ]
    ELSE [ display_name  |-> instance.name,
           name          |-> instance.instance_name,
           instance_type |-> IF instance.flavor # None THEN instance.flavor.id
                             ELSE NoneStr,
           host          |-> instance.hostId,
           user_metadata |-> user_metadata ]

_get_metadata_from_object(instance) ==
    IF instance.name = Missing \/ instance.hostId = Missing
    THEN Err("AttributeError")
    ELSE WithUserMetadata(instance,
                          _add_reserved_user_metadata(instance, MetadataKeys))

_instance_name(instance) == instance.instance_name

Counter(instance, name, type, unit, volume, resource_metadata) ==
    IF IsErr(resource_metadata) THEN resource_metadata
    ELSE [ name              |-> name,
           type              |-> type,
           unit              |-> unit,
           volume            |-> volume,
           user_id           |-> instance.user_id,
           project_id        |-> instance.tenant_id,
           resource_id       |-> instance.id,
           resource_metadata |-> resource_metadata ]

make_counter_from_instance(instance, name, type, unit, volume) ==
    IF instance.user_id = Missing \/ instance.tenant_id = Missing
    THEN Err("AttributeError")
    ELSE Counter(instance, name, type, unit, volume,
                 _get_metadata_from_object(instance))

(***************************************************************************)
(* InstancePollster.get_counters: two yields, no try block.                *)
(***************************************************************************)
FlavorName(instance) ==
    IF instance.flavor = None THEN Err("TypeError")
    ELSE IF instance.flavor.name = Missing THEN Err("KeyError")
    ELSE [value |-> instance.flavor.name]

\* The flavor sample first.
InstanceAttempts_flavor_first(instance, flavor_name) ==
    << IF IsErr(flavor_name) THEN flavor_name
       ELSE make_counter_from_instance(
                instance, "instance:" \o flavor_name.value, TYPE_GAUGE,
                "instance", 1),
       make_counter_from_instance(instance, "instance", TYPE_GAUGE,
                                  "instance", 1) >>

InstanceAttempts(instance, flavor_name) ==
    << make_counter_from_instance(instance, "instance", TYPE_GAUGE,
                                  "instance", 1),
       IF IsErr(flavor_name) THEN flavor_name
       ELSE make_counter_from_instance(
                instance, "instance:" \o flavor_name.value, TYPE_GAUGE,
                "instance", 1) >>

Propagating(attempts) ==
    [ samples |-> Yielded(attempts), raised |-> Failed(attempts) ]

InstancePollster_get_counters(instance) ==
    Propagating(InstanceAttempts(instance, FlavorName(instance)))

(***************************************************************************)
(* The inspector's answers.  An enumeration (inspect_disks, inspect_vnics) *)
(* is itself lazy: it hands over its items and may then raise.             *)
(***************************************************************************)
SeqsUpTo(S, n) == UNION { [1..k -> S] : k \in 0..n }

\* The counters of the k-th block device of an instance.
DiskInfoOf(k) ==
    [ read_bytes |-> 512 * k, read_requests |-> 2 * k + 1,
      write_bytes |-> 2048 * k, write_requests |-> 5 * k + 1,
      errors |-> k - 1 ]

\* inspect_disks hands over the instance's first k devices and may then raise.
DiskResults ==
    { [disks |-> [d \in 1..k |-> DiskInfoOf(d)], raises |-> b] :
        k \in 0..MaxDisks, b \in BOOLEAN }

NotInspected == [disks |-> <<>>, raises |-> FALSE]

(***************************************************************************)
(* DiskIOPollster._populate_cache.  `inspected` is what inspect_disks      *)
(* answers if it is called.                                                *)
(***************************************************************************)
RECURSIVE SumOf(_, _)
SumOf(disks, field) ==
    IF disks = <<>> THEN 0
    ELSE Head(disks)[field] + SumOf(Tail(disks), field)

\* Each total assigned from the device instead of added to.
DiskIOData_last_device(disks) ==
    IF disks = <<>>
    THEN [ r_bytes |-> 0, r_requests |-> 0, w_bytes |-> 0, w_requests |-> 0 ]
    ELSE [ r_bytes    |-> disks[Len(disks)].read_bytes,
           r_requests |-> disks[Len(disks)].read_requests,
           w_bytes    |-> disks[Len(disks)].write_bytes,
           w_requests |-> disks[Len(disks)].write_requests ]

DiskIOData(disks) ==
    [ r_bytes    |-> SumOf(disks, "read_bytes"),
      r_requests |-> SumOf(disks, "read_requests"),
      w_bytes    |-> SumOf(disks, "write_bytes"),
      w_requests |-> SumOf(disks, "write_requests") ]

SetDefault(c, key) == IF key \in DOMAIN c THEN c ELSE Put(c, key, EmptyMap)

InCache(c, instance_name) ==
    CACHE_KEY_DISK \in DOMAIN c /\ instance_name \in DOMAIN c[CACHE_KEY_DISK]

Store(c1, i_cache, instance_name, data) ==
    [ cache  |-> Put(c1, CACHE_KEY_DISK, Put(i_cache, instance_name, data)),
      called |-> TRUE,
      c_data |-> data ]

Populate(c1, i_cache, instance_name, inspected) ==
    IF instance_name \in DOMAIN i_cache
    THEN [ cache |-> c1, called |-> FALSE, c_data |-> i_cache[instance_name] ]
    ELSE IF inspected.raises
    THEN [ cache |-> c1, called |-> TRUE, c_data |-> Err("InspectionError") ]
    ELSE Store(c1, i_cache, instance_name, DiskIOData(inspected.disks))

_populate_cache(c, instance_name, inspected) ==
    Populate(SetDefault(c, CACHE_KEY_DISK),
             SetDefault(c, CACHE_KEY_DISK)[CACHE_KEY_DISK],
             instance_name, inspected)

(***************************************************************************)
(* DiskIOPollster.get_counters: _populate_cache runs before the try block, *)
(* the four yields inside it.                                              *)
(***************************************************************************)
DiskAttempts(instance, c_data) ==
    << make_counter_from_instance(instance, "disk.read.requests",
                                  TYPE_CUMULATIVE, "request", c_data.r_requests),
       make_counter_from_instance(instance, "disk.read.bytes",
                                  TYPE_CUMULATIVE, "B", c_data.r_bytes),
       make_counter_from_instance(instance, "disk.write.requests",
                                  TYPE_CUMULATIVE, "request", c_data.w_requests),
       make_counter_from_instance(instance, "disk.write.bytes",
                                  TYPE_CUMULATIVE, "B", c_data.w_bytes) >>

DiskYield(instance, p) ==
    IF IsErr(p.c_data)
    THEN [ cache |-> p.cache, called |-> p.called, c_data |-> p.c_data,
           samples |-> <<>>, raised |-> TRUE ]
    ELSE [ cache |-> p.cache, called |-> p.called, c_data |-> p.c_data,
           samples |-> Yielded(DiskAttempts(instance, p.c_data)),
           raised |-> FALSE ]

DiskIOPollster_get_counters(c, instance, inspected) ==
    DiskYield(instance, _populate_cache(c, _instance_name(instance), inspected))

(***************************************************************************)
(* The wall clock (datetime.datetime.now()) and datetime subtraction.  A   *)
(* timedelta is normalised: 0 <= seconds < 86400, 0 <= microseconds <      *)
(* 10**6, and the sign is carried by days alone.                           *)
(***************************************************************************)
At(day, microsecond) ==
    [ day |-> day, second |-> 0, microsecond |-> microsecond ]

\* The readings are 4 microseconds, one day and one day plus 4 microseconds apart.
Timestamps == { At(0, 0), At(0, 4), At(1, 4) }

TimeDelta(a, b) ==
    LET us     == a.microsecond - b.microsecond
        borrow == IF us < 0 THEN 1 ELSE 0
        sec    == a.second - b.second - borrow
        carry  == IF sec < 0 THEN 1 ELSE 0
    IN  [ days         |-> a.day - b.day - carry,
          seconds      |-> sec + carry * SecondsPerDay,
          microseconds |-> us + borrow * MicrosPerSecond ]

(***************************************************************************)
(* A count of nanoseconds.  Python's integers are unbounded and TLC's have *)
(* 32 bits, so the integer s * 10**9 + ns is kept as its two digits in     *)
(* base 10**9.  (seconds * 10**6 + microseconds) * 1000 is exactly         *)
(* seconds * 10**9 + microseconds * 1000.                                  *)
(***************************************************************************)
Nanos(seconds, microseconds) ==
    [ s |-> seconds, ns |-> microseconds * NanosPerMicro ]

NanosSign(n) ==
    IF n.s < 0 THEN -1 ELSE IF n.s = 0 /\ n.ns = 0 THEN 0 ELSE 1

\* line 254: the timedelta's days are not read
Elapsed(delta) == Nanos(delta.seconds, delta.microseconds)

\* No account taken of a reset.
TimeUsed_difference(prev_cpu, time) == time - prev_cpu

\* The comparison made strict: an unchanged counter taken for a reset.
TimeUsed_strict(prev_cpu, time) ==
    IF prev_cpu < time THEN time - prev_cpu ELSE time

\* lines 257-258
TimeUsed(prev_cpu, time) ==
    IF prev_cpu <= time THEN time - prev_cpu ELSE time

(***************************************************************************)
(* The float 100 * cores_fraction * time_used / elapsed, as the exact      *)
(* fraction num / (cores * elapsed); 0.0 is ZeroUtil.  Dividing by an      *)
(* elapsed of 0 raises ZeroDivisionError.                                  *)
(***************************************************************************)
ZeroUtil == [ num |-> 0, cores |-> 1, elapsed |-> Nanos(0, 1) ]

Quotient(time_used, number, elapsed) ==
    IF NanosSign(elapsed) = 0 THEN Err("ZeroDivisionError")
    ELSE IF time_used = 0 THEN ZeroUtil
    ELSE [ num |-> Percent * time_used, cores |-> number, elapsed |-> elapsed ]

(***************************************************************************)
(* CPUPollster.get_cpu_util.  The map is written before anything is        *)
(* computed.                                                               *)
(***************************************************************************)
\* A missing entry read as a baseline of zero at the first clock reading.
Lookup_zero_baseline(umap, id) ==
    IF id \in DOMAIN umap THEN umap[id] ELSE <<0, At(0, 0)>>

Lookup(umap, id) == IF id \in DOMAIN umap THEN umap[id] ELSE <<>>

\* The baseline kept when the counter was reset.
Record_unless_reset(umap, id, cpu_info, now) ==
    IF id \in DOMAIN umap /\ cpu_info.time < umap[id][1] THEN umap
    ELSE Put(umap, id, <<cpu_info.time, now>>)

\* A table that holds the last observed instance only.
Record_last_only(umap, id, cpu_info, now) ==
    Put(EmptyMap, id, <<cpu_info.time, now>>)

Record(umap, id, cpu_info, now) == Put(umap, id, <<cpu_info.time, now>>)

Rate(new_map, prev_times, cpu_info, delta, time_used) ==
    [ utilization_map |-> new_map, prev_times |-> prev_times,
      delta |-> delta, elapsed |-> Elapsed(delta), time_used |-> time_used,
      cpu_util |-> Quotient(time_used, cpu_info.number, Elapsed(delta)) ]

\* Every observation taken for the first one.
CpuUtil_first_observation(new_map, prev_times, id, cpu_info) ==
    [ utilization_map |-> new_map, prev_times |-> <<>>, cpu_util |-> ZeroUtil ]

CpuUtil(new_map, prev_times, id, cpu_info) ==
    IF prev_times = <<>>
    THEN [ utilization_map |-> new_map, prev_times |-> prev_times,
           cpu_util |-> ZeroUtil ]
    ELSE Rate(new_map, prev_times, cpu_info,
              TimeDelta(new_map[id][2], prev_times[2]),
              TimeUsed(prev_times[1], cpu_info.time))

get_cpu_util(umap, instance, cpu_info, now) ==
    CpuUtil(Record(umap, instance.id, cpu_info, now),
            Lookup(umap, instance.id), instance.id, cpu_info)

(***************************************************************************)
(* CPUPollster.get_counters: everything inside one try block.              *)
(***************************************************************************)
CpuTimes == {100, 1000, 5000, 9000}
CoreCounts == {4}

CpuResults ==
    [ time : CpuTimes, number : CoreCounts, raises : {FALSE} ]
    \cup { [raises |-> TRUE] }

CpuYield(instance, cpu_info, u) ==
    [ utilization_map |-> u.utilization_map,
      util    |-> u,
      samples |->
          IF IsErr(u.cpu_util) THEN <<>>
          ELSE Yielded(
              << make_counter_from_instance(instance, "cpu_util",
                     TYPE_GAUGE, "%", u.cpu_util),
                 make_counter_from_instance(instance, "cpu",
                     TYPE_CUMULATIVE, "ns", cpu_info.time) >>),
      raised  |-> FALSE ]

\* A failed inspection recorded as an observation of no CPU time.
CPUPollster_get_counters_failure_recorded(umap, instance, inspected, now) ==
    IF inspected.raises
    THEN [ utilization_map |-> Put(umap, instance.id, <<0, now>>),
           util |-> None, samples |-> <<>>, raised |-> FALSE ]
    ELSE CpuYield(instance, inspected,
                  get_cpu_util(umap, instance, inspected, now))

CPUPollster_get_counters(umap, instance, inspected, now) ==
    IF inspected.raises
    THEN [ utilization_map |-> umap, util |-> None, samples |-> <<>>,
           raised |-> FALSE ]
    ELSE CpuYield(instance, inspected,
                  get_cpu_util(umap, instance, inspected, now))

(***************************************************************************)
(* NetPollster.  inspect_vnics enumerates each vNIC once: within one       *)
(* enumeration the names are distinct, and a stable reference (fref)       *)
(* belongs to one vNIC.  Each vNIC comes with its own counters.            *)
(***************************************************************************)
VnicNames == {"vnet0", "vnet1", "vnet2"}

FrefOf(name) == "nwfilter-" \o name

Vnics ==
    { [name |-> n, mac |-> "mac-" \o n, fref |-> f] :
        n \in VnicNames, f \in {NoneStr} } 
    \cup { [name |-> n, mac |-> "mac-" \o n, fref |-> FrefOf(n)] : n \in VnicNames }

VnicInfoOf(name) ==
    IF name = "vnet0"
    THEN [rx_bytes |-> 100, tx_bytes |-> 200, rx_packets |-> 3, tx_packets |-> 4]
    ELSE IF name = "vnet1"
    THEN [rx_bytes |-> 900, tx_bytes |-> 800, rx_packets |-> 7, tx_packets |-> 6]
    ELSE [rx_bytes |-> 0, tx_bytes |-> 50, rx_packets |-> 0, tx_packets |-> 1]

VnicItems == { <<v, VnicInfoOf(v.name)>> : v \in Vnics }

VnicResults ==
    { r \in [ vnics : SeqsUpTo(VnicItems, MaxVnics), raises : BOOLEAN ] :
        \A i, j \in DOMAIN r.vnics :
            i # j => r.vnics[i][1].name # r.vnics[j][1].name }

\* The stable reference ignored.
VnicResourceId_derived(instance, vnic_data) ==
    _instance_name(instance) \o "-" \o instance.id \o "-" \o vnic_data.name

VnicResourceId(instance, vnic_data) ==
    IF vnic_data.fref # NoneStr THEN vnic_data.fref
    ELSE _instance_name(instance) \o "-" \o instance.id \o "-" \o vnic_data.name

make_vnic_counter(instance, name, type, unit, volume, vnic_data) ==
    IF instance.user_id = Missing \/ instance.tenant_id = Missing
    THEN Err("AttributeError")
    ELSE [ name              |-> name,
           type              |-> type,
           unit              |-> unit,
           volume            |-> volume,
           user_id           |-> instance.user_id,
           project_id        |-> instance.tenant_id,
           resource_id       |-> VnicResourceId(instance, vnic_data),
           resource_metadata |->
               [ name          |-> vnic_data.name,
                 mac           |-> vnic_data.mac,
                 fref          |-> vnic_data.fref,
                 instance_id   |-> instance.id,
                 instance_type |-> IF instance.flavor # None
                                   THEN instance.flavor.id ELSE NoneStr ] ]

\* The yields in the order of get_counter_names.
VnicAttempts_by_name(instance, vnic, info) ==
    << make_vnic_counter(instance, "network.incoming.bytes", TYPE_CUMULATIVE,
                         "B", info.rx_bytes, vnic),
       make_vnic_counter(instance, "network.incoming.packets", TYPE_CUMULATIVE,
                         "packet", info.rx_packets, vnic),
       make_vnic_counter(instance, "network.outgoing.bytes", TYPE_CUMULATIVE,
                         "B", info.tx_bytes, vnic),
       make_vnic_counter(instance, "network.outgoing.packets", TYPE_CUMULATIVE,
                         "packet", info.tx_packets, vnic) >>

VnicAttempts(instance, vnic, info) ==
    << make_vnic_counter(instance, "network.incoming.bytes", TYPE_CUMULATIVE,
                         "B", info.rx_bytes, vnic),
       make_vnic_counter(instance, "network.outgoing.bytes", TYPE_CUMULATIVE,
                         "B", info.tx_bytes, vnic),
       make_vnic_counter(instance, "network.incoming.packets", TYPE_CUMULATIVE,
                         "packet", info.rx_packets, vnic),
       make_vnic_counter(instance, "network.outgoing.packets", TYPE_CUMULATIVE,
                         "packet", info.tx_packets, vnic) >>

RECURSIVE NetAttempts(_, _)
NetAttempts(instance, items) ==
    IF items = <<>> THEN <<>>
    ELSE VnicAttempts(instance, Head(items)[1], Head(items)[2])
         \o NetAttempts(instance, Tail(items))

Caught(attempts) == [ samples |-> Yielded(attempts), raised |-> FALSE ]

NetPollster_get_counters(instance, inspected) ==
    Caught(NetAttempts(instance, inspected.vnics)
           \o (IF inspected.raises THEN << Err("InspectionError") >> ELSE <<>>))

(***************************************************************************)
(* The state before the first call, and the calls.                         *)
(***************************************************************************)
NoCalls == [n \in InstanceNames |-> 0]

Threads == {"t1", "t2"}

NoneRunning == [t \in Threads |-> [pc |-> "idle"]]

Init ==
    /\ cache = EmptyMap
    /\ utilization_map = EmptyMap
    /\ inspect_disks_calls = NoCalls
    /\ out = [producer |-> "none", samples |-> <<>>, raised |-> FALSE]
    /\ running = NoneRunning

\* The orchestrator starts a cycle with a fresh cache (and a fresh fake inspector).
NewCycle ==
    /\ cache' = EmptyMap
    /\ inspect_disks_calls' = NoCalls
    /\ UNCHANGED <<utilization_map, out, running>>

\* One call of each pollster's get_counters, its inputs given.
InstanceCall(instance) ==
    LET r == InstancePollster_get_counters(instance) IN
        /\ out' = [ producer |-> "instance", instance |-> instance,
                    called |-> FALSE, inspector_raised |-> FALSE,
                    samples |-> r.samples, raised |-> r.raised ]
        /\ UNCHANGED <<cache, utilization_map, inspect_disks_calls, running>>

\* inspect_disks answers only when the cache has no aggregate for the instance.
DiskAnswers(instance, results) ==
    IF InCache(cache, _instance_name(instance)) THEN {NotInspected} ELSE results

DiskCall(instance, inspected) ==
    LET n == _instance_name(instance)
        r == DiskIOPollster_get_counters(cache, instance, inspected) IN
        /\ r.called => inspect_disks_calls[n] < MaxCalls
        /\ cache' = r.cache
        /\ inspect_disks_calls' =
               IF r.called
               THEN [inspect_disks_calls EXCEPT ![n] = @ + 1]
               ELSE inspect_disks_calls
        /\ out' = [ producer |-> "disk", instance |-> instance,
                    called |-> r.called,
                    inspector_raised |-> r.called /\ inspected.raises,
                    inspected |-> inspected,
                    before |-> cache, after |-> r.cache,
                    c_data |-> r.c_data,
                    samples |-> r.samples, raised |-> r.raised ]
        /\ UNCHANGED <<utilization_map, running>>

CPUCall(instance, inspected, now) ==
    LET r == CPUPollster_get_counters(utilization_map, instance,
                                      inspected, now) IN
        /\ utilization_map' = r.utilization_map
        /\ out' = [ producer |-> "cpu", instance |-> instance,
                    called |-> TRUE,
                    inspector_raised |-> inspected.raises,
                    inspected |-> inspected, now |-> now,
                    before |-> utilization_map,
                    util |-> r.util,
                    samples |-> r.samples, raised |-> r.raised ]
        /\ UNCHANGED <<cache, inspect_disks_calls, running>>

NetCall(instance, inspected) ==
    LET r == NetPollster_get_counters(instance, inspected) IN
        /\ out' = [ producer |-> "net", instance |-> instance,
                    called |-> TRUE,
                    inspector_raised |-> inspected.raises,
                    inspected |-> inspected,
                    samples |-> r.samples, raised |-> r.raised ]
        /\ UNCHANGED <<cache, utilization_map, inspect_disks_calls, running>>

InstancePoll == \E instance \in Instances : InstanceCall(instance)

DiskPoll ==
    \E instance \in Instances :
        \E inspected \in DiskAnswers(instance, DiskResults) :
            DiskCall(instance, inspected)

CPUPoll ==
    \E instance \in Instances, inspected \in CpuResults, now \in Timestamps :
        CPUCall(instance, inspected, now)

NetPoll ==
    \E instance \in Instances, inspected \in VnicResults :
        NetCall(instance, inspected)

Next == NewCycle \/ InstancePoll \/ DiskPoll \/ CPUPoll \/ NetPoll

Spec == Init /\ [][Next]_vars

\* One producer at a time: the state the other producers own stays as Init left it.
NextDisk == NewCycle \/ DiskPoll
SpecDisk == Init /\ [][NextDisk]_vars

NextCPU == CPUPoll
SpecCPU == Init /\ [][NextCPU]_vars

NextNet == NetPoll
SpecNet == Init /\ [][NextNet]_vars

\* An agent that loads one pollster, whichever it is.
Loaded(producer) == out.producer \in {"none", producer}

NextPollster ==
    \/ Loaded("instance") /\ InstancePoll
    \/ Loaded("disk") /\ NextDisk
    \/ Loaded("cpu") /\ CPUPoll
    \/ Loaded("net") /\ NetPoll
SpecPollster == Init /\ [][NextPollster]_vars

(***************************************************************************)
(* get_cpu_util run by several threads over the one utilization_map, a     *)
(* thread advancing one statement at a time: the lookup of line 246, the   *)
(* store of lines 247-248, the rate of lines 249-260 (which reads the map  *)
(* again at line 253).  The code takes no lock.                            *)
(***************************************************************************)
Enter(t, instance, cpu_info) ==
    /\ running[t].pc = "idle"
    /\ running' = [running EXCEPT ![t] =
                       [pc |-> "lookup", id |-> instance.id, cpu_info |-> cpu_info]]
    /\ UNCHANGED <<cache, utilization_map, inspect_disks_calls, out>>

LookupStep(t) ==
    /\ running[t].pc = "lookup"
    /\ running' = [running EXCEPT ![t] =
                       [pc |-> "store", id |-> running[t].id,
                        cpu_info |-> running[t].cpu_info,
                        prev_times |-> Lookup(utilization_map, running[t].id)]]
    /\ UNCHANGED <<cache, utilization_map, inspect_disks_calls, out>>

StoreStep(t, now) ==
    /\ running[t].pc = "store"
    /\ utilization_map' = Record(utilization_map, running[t].id,
                                 running[t].cpu_info, now)
    /\ running' = [running EXCEPT ![t] =
                       [pc |-> "rate", id |-> running[t].id,
                        cpu_info |-> running[t].cpu_info,
                        prev_times |-> running[t].prev_times]]
    /\ UNCHANGED <<cache, inspect_disks_calls, out>>

RateStep(t) ==
    /\ running[t].pc = "rate"
    /\ out' = [ producer |-> "get_cpu_util",
                cpu_util |-> CpuUtil(utilization_map, running[t].prev_times,
                                     running[t].id,
                                     running[t].cpu_info).cpu_util ]
    /\ running' = [running EXCEPT ![t] = [pc |-> "idle"]]
    /\ UNCHANGED <<cache, utilization_map, inspect_disks_calls>>

AgentTimestamps == { At(0, 0), At(0, 4) }

ThreadCpuResults == { r \in CpuResults : ~r.raises /\ r.time \in {100, 9000} }

NextThreads ==
    \E t \in Threads :
        \/ \E id \in Ids, cpu_info \in ThreadCpuResults :
               Enter(t, CompleteInstance(id), cpu_info)
        \/ LookupStep(t)
        \/ \E now \in AgentTimestamps : StoreStep(t, now)
        \/ RateStep(t)
SpecThreads == Init /\ [][NextThreads]_vars

(***************************************************************************)
(* An agent that loads the four pollsters and polls two instances, cycle   *)
(* after cycle, in any order.                                              *)
(***************************************************************************)
AgentInstances ==
    { CompleteInstance(id) : id \in Ids }
    \cup { [CompleteInstance("i-1") EXCEPT !.flavor = None] }

\* What the inspector answers to this agent: block devices and vNICs that are
\* there, CPU times on either side of a reset, two moments of the clock.
AgentDiskResults == { r \in DiskResults : Len(r.disks) >= 1 /\ ~r.raises }

AgentCpuResults == { r \in CpuResults : r.raises \/ r.time \in {100, 9000} }

AgentVnicResults == { r \in VnicResults : Len(r.vnics) = 1 /\ ~r.raises }

NextAgent ==
    \/ NewCycle
    \/ \E instance \in AgentInstances : InstanceCall(instance)
    \/ \E instance \in AgentInstances :
           \E inspected \in DiskAnswers(instance, AgentDiskResults) :
               DiskCall(instance, inspected)
    \/ \E instance \in AgentInstances, inspected \in AgentCpuResults,
          now \in AgentTimestamps :
           CPUCall(instance, inspected, now)
    \/ \E instance \in AgentInstances, inspected \in AgentVnicResults :
           NetCall(instance, inspected)
SpecAgent == Init /\ [][NextAgent]_vars

(***************************************************************************)
(* Instances that carry user metadata: any choice among keys inside and    *)
(* outside the reserved namespace, whose stripped names are free           *)
(* ('stack', 'a_b', 'user_id'), taken ('host', 'disk_gb') or not stripped  *)
(* at all ('owner'); one value is longer than reserved_metadata_length,    *)
(* one is not a string.                                                    *)
(***************************************************************************)
UserKeys ==
    { << "metering", ".", "stack" >>,
      << "metering", ".", "host" >>,
      << "metering", ".", "disk", ".", "gb" >>,
      << "metering", ".", "user", "_", "id" >>,
      << "metering", ".", "a", ".", "b" >>,
      << "owner" >> }

UserValue(k) ==
    IF k = << "metering", ".", "stack" >> THEN [chars |-> 300]
    ELSE IF k = << "metering", ".", "a", ".", "b" >> THEN [number |-> 7]
    ELSE [chars |-> 3]

MetadataInstances ==
    { [instance EXCEPT !.metadata = [k \in keys |-> UserValue(k)]] :
          instance \in { i \in AgentInstances : i.id = "i-1" },
          keys \in SUBSET UserKeys }

\* The two constructors of samples, each under a pollster that uses it.
NextMetadata ==
    \/ \E instance \in MetadataInstances : InstanceCall(instance)
    \/ \E instance \in MetadataInstances, inspected \in AgentVnicResults :
           NetCall(instance, inspected)
SpecMetadata == Init /\ [][NextMetadata]_vars

(***************************************************************************)
(* The Gnocchi threshold evaluator's statistics query.  A response body is *)
(* a text, here the sequence of its JSON tokens, numbers written out in    *)
(* digits; a datapoint is [timestamp, granularity, value].                 *)
(***************************************************************************)
MaxPoints == 2     \* datapoints in one response body

gnocchi_url == "http://localhost:8041"

AlarmTypes ==
    { "gnocchi_aggregation_by_resources_threshold",
      "gnocchi_aggregation_by_metrics_threshold",
      "gnocchi_resources_threshold",
      "threshold" }

Granularities == {60, 300}

AlarmOf(type, granularity) ==
    [ type |-> type,
      rule |-> [ aggregation_method |-> "mean", granularity |-> granularity,
                 resource_type |-> "instance", resource_id |-> "i-1",
                 metric |-> "cpu_util", metrics |-> << "m-1", "m-2" >>,
                 query |-> "{}" ] ]

Alarms ==
    { AlarmOf(type, 60) : type \in AlarmTypes }
    \cup { AlarmOf("gnocchi_resources_threshold", 300) }

\* lines 50-74: the verb, the URL in its pieces, the parameters and the body.
Request(alarm, start, end) ==
    LET base == [ method |-> "get",
                  url    |-> << gnocchi_url, "/v1" >>,
                  params |-> [ aggregation |-> alarm.rule.aggregation_method,
                               start |-> start, end |-> end,
                               metrics |-> << >> ],
                  data   |-> None ]
    IN  IF alarm.type = "gnocchi_aggregation_by_resources_threshold"
        THEN [ base EXCEPT
                 !.method = "post",
                 !.url = @ \o << "/aggregation/resource/",
                                 alarm.rule.resource_type, "/metric/",
                                 alarm.rule.metric >>,
                 !.data = alarm.rule.query ]
        ELSE IF alarm.type = "gnocchi_aggregation_by_metrics_threshold"
        THEN [ base EXCEPT
                 !.url = @ \o << "/aggregation/metric" >>,
                 !.params.metrics = alarm.rule.metrics ]
        ELSE IF alarm.type = "gnocchi_resources_threshold"
        THEN [ base EXCEPT
                 !.url = @ \o << "/resource/", alarm.rule.resource_type, "/",
                                 alarm.rule.resource_id, "/metric/",
                                 alarm.rule.metric, "/measures" >> ]
        ELSE base

\* What the store has for the k-th datapoint of a body, at a granularity.
PointOf(k, granularity) == << k, granularity, 10 + k >>

PointLists ==
    UNION { { [ k \in 1..n |-> PointOf(k, g[k]) ] :
                g \in [1..n -> Granularities] } : n \in 0..MaxPoints }

\* The digits of the numbers a body can hold.
Digits(n) ==
    CASE n = 1 -> "1" [] n = 2 -> "2" [] n = 3 -> "3" [] n = 11 -> "11"
      [] n = 12 -> "12" [] n = 13 -> "13" [] n = 60 -> "60"
      [] n = 300 -> "300"

NumberTokens == { "1", "2", "3", "11", "12", "13", "60", "300" }

NumberOf(token) ==
    CASE token = "1" -> 1 [] token = "2" -> 2 [] token = "3" -> 3
      [] token = "11" -> 11 [] token = "12" -> 12 [] token = "13" -> 13
      [] token = "60" -> 60 [] token = "300" -> 300

\* The server's side: a list of datapoints written as JSON.
RECURSIVE DumpPoints(_)
DumpPoints(points) ==
    IF points = << >> THEN << >>
    ELSE (IF Len(points) > 1
          THEN DumpPoints(SubSeq(points, 1, Len(points) - 1)) \o << "," >>
          ELSE << >>)
         \o << "[", Digits(points[Len(points)][1]), ",",
               Digits(points[Len(points)][2]), ",",
               Digits(points[Len(points)][3]), "]" >>

Dumps(points) == << "[" >> \o DumpPoints(points) \o << "]" >>

\* Bodies that are no JSON: an error page, a text cut short.
BrokenTexts == { << "<html>" >>, << "[", "[", "1", ",", "60" >> }

Texts == { Dumps(points) : points \in PointLists } \cup BrokenTexts

\* jsonutils.loads on such a text: a list of triples, or ValueError.
ValueError == [ raises |-> TRUE, value |-> << >> ]

Decoded(value) == [ raises |-> FALSE, value |-> value ]

IsPointAt(text, p) ==
    /\ p + 6 <= Len(text)
    /\ text[p] = "["
    /\ text[p + 1] \in NumberTokens
    /\ text[p + 2] = ","
    /\ text[p + 3] \in NumberTokens
    /\ text[p + 4] = ","
    /\ text[p + 5] \in NumberTokens
    /\ text[p + 6] = "]"

RECURSIVE LoadPoints(_, _, _)
LoadPoints(text, p, loaded) ==
    IF ~IsPointAt(text, p) THEN ValueError
    ELSE LET more == Append(loaded, << NumberOf(text[p + 1]),
                                       NumberOf(text[p + 3]),
                                       NumberOf(text[p + 5]) >>)
         IN  IF p + 7 = Len(text) /\ text[p + 7] = "]" THEN Decoded(more)
             ELSE IF p + 7 < Len(text) /\ text[p + 7] = ","
             THEN LoadPoints(text, p + 8, more)
             ELSE ValueError

loads(text) ==
    IF Len(text) < 2 \/ text[1] # "[" THEN ValueError
    ELSE IF text = << "[", "]" >> THEN Decoded(<< >>)
    ELSE LoadPoints(text, 2, << >>)

\* What getattr(requests, method)(**req) does: it raises, or it returns a
\* response with a status code and a text.
RequestErrors == { "ConnectionError", "Timeout" }

StatusCodes == { 199, 200, 299, 300, 404 }

Responses ==
    { Err(kind) : kind \in RequestErrors }
    \cup [ status_code : StatusCodes, text : Texts ]

\* A handler for connection errors only.
IsException_connection_only(kind) == kind = "ConnectionError"

\* except Exception: requests' exceptions are all of that class.
IsException(kind) == kind \in RequestErrors

\* lines 77-86: what _statistics returns, and whether it raised instead.
_statistics(alarm, start, end, r) ==
    IF IsErr(r)
    THEN IF IsException(r.exc)
         THEN [ returned |-> << >>, raised |-> FALSE ]
         ELSE [ returned |-> << >>, raised |-> TRUE ]
    ELSE IF r.status_code \div 100 # 2
    THEN [ returned |-> << >>, raised |-> FALSE ]
    ELSE [ returned |-> loads(r.text).value, raised |-> loads(r.text).raises ]

\* lines 95-96: stats[1] and stats[2] count from 0.
RECURSIVE _sanitize(_, _)
_sanitize(alarm, statistics) ==
    IF statistics = << >> THEN << >>
    ELSE _sanitize(alarm, SubSeq(statistics, 1, Len(statistics) - 1))
         \o (IF statistics[Len(statistics)][2] = alarm.rule.granularity
             THEN << statistics[Len(statistics)][3] >>
             ELSE << >>)

\* One evaluation: the query is made, and its result, when there is one,
\* is sanitized.
StatisticsCall(alarm, r) ==
    LET s == _statistics(alarm, 0, 1, r) IN
        /\ out' = [ producer |-> "gnocchi", op |-> "_statistics",
                    alarm |-> alarm, request |-> Request(alarm, 0, 1),
                    response |-> r,
                    statistics |-> s.returned, raised |-> s.raised,
                    samples |-> << >> ]
        /\ UNCHANGED <<cache, utilization_map, inspect_disks_calls, running>>

SanitizeCall ==
    /\ out.producer = "gnocchi"
    /\ out.op = "_statistics"
    /\ ~out.raised
    /\ out' = [ producer |-> "gnocchi", op |-> "_sanitize",
                alarm |-> out.alarm, request |-> out.request,
                response |-> out.response,
                statistics |-> out.statistics, raised |-> FALSE,
                sanitized |-> _sanitize(out.alarm, out.statistics),
                samples |-> << >> ]
    /\ UNCHANGED <<cache, utilization_map, inspect_disks_calls, running>>

NextGnocchi ==
    \/ \E alarm \in Alarms, r \in Responses : StatisticsCall(alarm, r)
    \/ SanitizeCall
SpecGnocchi == Init /\ [][NextGnocchi]_vars

(***************************************************************************)
(* What the properties below read off a call.                              *)
(***************************************************************************)
Producers == {"instance", "disk", "cpu", "net"}

\* The descriptor has every attribute a sample of the instance needs.
CarriesAttributes(instance) ==
    /\ instance.user_id # Missing
    /\ instance.tenant_id # Missing
    /\ instance.name # Missing
    /\ instance.hostId # Missing

\* The descriptor has every attribute a sample of a vNIC needs.
CarriesIdentity(instance) ==
    instance.user_id # Missing /\ instance.tenant_id # Missing

\* The last call was a CPU observation: inspect_cpus returned.
Observed == out.producer = "cpu" /\ ~out.inspector_raised

\* ... of an instance that had a tracker entry when the call began.
HasBaseline == Observed /\ out.instance.id \in DOMAIN out.before

Prev == out.before[out.instance.id]

\* A tracker's entry for an id, the empty tuple when it has none.
Entry(tracker, id) == IF id \in DOMAIN tracker THEN tracker[id] ELSE <<>>

\* The values the specification asks for, computed without the pollsters'
\* operators: time_used with the counter reset, ...
ExpectedTimeUsed(prev_time, cumulative_time) ==
    IF cumulative_time < prev_time THEN cumulative_time
    ELSE cumulative_time - prev_time

\* now - prev_timestamp in nanoseconds, the days counted.
TrueElapsed(now, prev_timestamp) ==
    Nanos(TimeDelta(now, prev_timestamp).days * SecondsPerDay
              + TimeDelta(now, prev_timestamp).seconds,
          TimeDelta(now, prev_timestamp).microseconds)

\* v = 100 * time_used / (core_count * elapsed), both sides exact fractions
\* over the same numerator: they agree iff the numerator is 0 or the
\* denominators are the same.
IsRate(v, time_used, core_count, elapsed) ==
    IF time_used = 0 THEN v.num = 0
    ELSE /\ v.num = Percent * time_used
         /\ v.cores = core_count
         /\ v.elapsed = elapsed

NetNames ==
    << "network.incoming.bytes", "network.outgoing.bytes",
       "network.incoming.packets", "network.outgoing.packets" >>

DiskNames ==
    << "disk.read.requests", "disk.read.bytes",
       "disk.write.requests", "disk.write.bytes" >>

DiskFields ==
    << "read_requests", "read_bytes", "write_requests", "write_bytes" >>

AggregateFields == << "r_requests", "r_bytes", "w_requests", "w_bytes" >>

\* The sum of one counter over the first k devices of an enumeration.
RECURSIVE Total(_, _, _)
Total(disks, field, k) ==
    IF k = 0 THEN 0 ELSE disks[k][field] + Total(disks, field, k - 1)

(***************************************************************************)
(* C1.  Checked against the code, the claim fails for the disk pollster.   *)
(***************************************************************************)
\* C1: whichever the producer, when the inspector call made for the instance
\* raises, get_counters raises nothing to its caller.
C1_InspectorErrorIsIsolated ==
    (out.producer \in Producers /\ out.inspector_raised) => ~out.raised

(***************************************************************************)
(* C2.                                                                     *)
(***************************************************************************)
\* C2: within one cycle (one cache object) inspect_disks is called at most
\* once for each instance name, however often the disk pollster is invoked.
C2_AtMostOneInspectDisks ==
    \A n \in InstanceNames : inspect_disks_calls[n] <= 1

(***************************************************************************)
(* C3.                                                                     *)
(***************************************************************************)
\* C3: an observation of an instance id that has no tracker entry emits
\* cpu_util with volume 0, whatever CPU time and core count were inspected.
C3_FirstObservationIsZero ==
    (Observed /\ out.instance.id \notin DOMAIN out.before) =>
        /\ \A i \in DOMAIN out.samples :
               out.samples[i].name = "cpu_util" => out.samples[i].volume = ZeroUtil
        /\ CarriesAttributes(out.instance) =>
               /\ Len(out.samples) = 2
               /\ out.samples[1].name = "cpu_util"

C3_Witness ==
    /\ Observed
    /\ out.instance.id \notin DOMAIN out.before
    /\ out.inspected.time = 9000
    /\ Len(out.samples) = 2
    /\ out.samples[1].name = "cpu_util"
    /\ out.samples[1].volume = ZeroUtil

(***************************************************************************)
(* C4.                                                                     *)
(***************************************************************************)
\* C4: with a tracker entry and elapsed = now - prev_timestamp > 0 of any
\* size, the emitted cpu_util is 100 * time_used / (core_count * elapsed).
C4_RateOverElapsed ==
    ( /\ HasBaseline
      /\ CarriesAttributes(out.instance)
      /\ NanosSign(TrueElapsed(out.now, Prev[2])) = 1 ) =>
        /\ Len(out.samples) >= 1
        /\ out.samples[1].name = "cpu_util"
        /\ IsRate(out.samples[1].volume,
                  ExpectedTimeUsed(Prev[1], out.inspected.time),
                  out.inspected.number,
                  TrueElapsed(out.now, Prev[2]))

(***************************************************************************)
(* C5.                                                                     *)
(***************************************************************************)
\* C5: time_used is cumulative_time when cumulative_time < prev_time, and
\* cumulative_time - prev_time otherwise (0 when they are equal); the
\* cpu_util that is emitted has 100 * time_used as its numerator.
C5_CounterReset ==
    HasBaseline =>
        /\ out.util.time_used = ExpectedTimeUsed(Prev[1], out.inspected.time)
        /\ \A i \in DOMAIN out.samples :
               out.samples[i].name = "cpu_util" =>
                   out.samples[i].volume.num =
                       Percent * ExpectedTimeUsed(Prev[1], out.inspected.time)

C5_Witness ==
    /\ HasBaseline
    /\ Prev[1] = 9000
    /\ out.inspected.time = 100
    /\ out.util.time_used = 100
    /\ Len(out.samples) = 2
    /\ out.samples[1].volume.num = 10000

(***************************************************************************)
(* C6.                                                                     *)
(***************************************************************************)
\* C6: with a tracker entry and elapsed = now - prev_timestamp <= 0, the
\* utilization is 0: cpu_util with volume 0 and cpu are both emitted.
C6_NonPositiveElapsedIsZero ==
    ( /\ HasBaseline
      /\ CarriesAttributes(out.instance)
      /\ NanosSign(TrueElapsed(out.now, Prev[2])) <= 0 ) =>
        /\ Len(out.samples) = 2
        /\ out.samples[1].name = "cpu_util"
        /\ out.samples[1].volume.num = 0
        /\ out.samples[2].name = "cpu"

(***************************************************************************)
(* C7.                                                                     *)
(***************************************************************************)
\* C7: after a CPU observation the tracker entry of the instance id is
\* (cumulative_time, time of the observation), with or without a previous
\* entry and with or without a counter reset; a call whose inspector raised
\* leaves the entry alone; so the rate is computed against the entry the
\* latest successful observation left.
C7_TrackerRecordsEveryObservation ==
    out.producer = "cpu" =>
        IF out.inspector_raised
        THEN Entry(utilization_map, out.instance.id)
                 = Entry(out.before, out.instance.id)
        ELSE /\ out.instance.id \in DOMAIN utilization_map
             /\ utilization_map[out.instance.id] = <<out.inspected.time, out.now>>
             /\ out.util.prev_times = Entry(out.before, out.instance.id)

C7_Witness ==
    /\ HasBaseline
    /\ out.inspected.time < Prev[1]
    /\ out.now = Prev[2]
    /\ out.samples = <<>>
    /\ utilization_map[out.instance.id] = <<out.inspected.time, out.now>>

C9_ResourceIds ==
    /\ out.producer = "net" =>
           \A i \in DOMAIN out.samples :
               /\ out.samples[i].resource_id =
                      IF out.inspected.vnics[((i - 1) \div 4) + 1][1].fref # NoneStr
                      THEN out.inspected.vnics[((i - 1) \div 4) + 1][1].fref
                      ELSE out.instance.instance_name \o "-" \o out.instance.id
                           \o "-" \o out.inspected.vnics[((i - 1) \div 4) + 1][1].name
               /\ out.samples[i].resource_id # out.instance.id
    /\ out.producer \in {"instance", "cpu", "disk"} =>
           \A i \in DOMAIN out.samples :
               out.samples[i].resource_id = out.instance.id

C9_Witness ==
    /\ out.producer = "net"
    /\ Len(out.samples) = 8
    /\ out.inspected.vnics[1][1].fref = NoneStr
    /\ out.samples[1].resource_id = "instance-00000002-i-2-vnet2"
    /\ out.samples[8].resource_id = "nwfilter-vnet1"

(***************************************************************************)
(* C10.                                                                    *)
(***************************************************************************)
\* C10: a disk pollster call that meets no error emits exactly four
\* CUMULATIVE samples, disk.read.requests, disk.read.bytes,
\* disk.write.requests, disk.write.bytes, whose volumes are the sums over
\* the devices inspect_disks returned (0 each when there is no device); the
\* sums are what the cache keeps, and a later call of the cycle emits them.
C10_DiskTotals ==
    (out.producer = "disk" /\ ~out.inspector_raised) =>
        /\ out.called =>
               \A i \in 1..4 :
                   out.after[CACHE_KEY_DISK][out.instance.instance_name]
                            [AggregateFields[i]]
                       = Total(out.inspected.disks, DiskFields[i],
                               Len(out.inspected.disks))
        /\ CarriesAttributes(out.instance) =>
               /\ Len(out.samples) = 4
               /\ \A i \in 1..4 :
                      /\ out.samples[i].name = DiskNames[i]
                      /\ out.samples[i].type = TYPE_CUMULATIVE
                      /\ out.samples[i].volume =
                             IF out.called
                             THEN Total(out.inspected.disks, DiskFields[i],
                                        Len(out.inspected.disks))
                             ELSE out.before[CACHE_KEY_DISK]
                                      [out.instance.instance_name][AggregateFields[i]]

C10_Witness ==
    /\ out.producer = "disk"
    /\ out.called
    /\ Len(out.inspected.disks) = 2
    /\ Len(out.samples) = 4
    /\ out.samples[1].volume = 8
    /\ out.samples[2].volume = 1536
    /\ out.samples[3].volume = 17
    /\ out.samples[4].volume = 6144

(***************************************************************************)
(* C11.                                                                    *)
(***************************************************************************)
\* C11: an instance pollster call for an instance that carries the
\* attributes a sample needs emits exactly two samples, GAUGE 'instance'
\* with volume 1 and then GAUGE 'instance:<flavor-name>' with volume 1; the
\* call changes neither the cycle cache, nor the count of inspect_disks
\* calls, nor the tracker.
C11_InstancePresence ==
    [][ (out'.producer = "instance") =>
            /\ (CarriesAttributes(out'.instance) /\ out'.instance.flavor # None) =>
                   /\ Len(out'.samples) = 2
                   /\ out'.samples[1].name = "instance"
                   /\ out'.samples[2].name =
                          "instance:" \o out'.instance.flavor.name
                   /\ \A i \in 1..2 :
                          /\ out'.samples[i].type = TYPE_GAUGE
                          /\ out'.samples[i].volume = 1
            /\ ~out'.called
            /\ (out' # out) =>
                   UNCHANGED <<cache, utilization_map, inspect_disks_calls, running>> ]_vars

C11_Witness ==
    /\ out.producer = "instance"
    /\ Len(out.samples) = 2
    /\ out.samples[1].name = "instance"
    /\ out.samples[2].name = "instance:m1.small"
    /\ InCache(cache, "instance-00000001")
    /\ "i-1" \in DOMAIN utilization_map

(***************************************************************************)
(* C12.  Checked against the code, the claim fails for the instance        *)
(* pollster.                                                               *)
(***************************************************************************)
\* C12: whichever the producer, a call for an instance that lacks an
\* attribute a sample needs (user id, hostId, flavor), its inspector call
\* not failing, raises nothing to its caller.
C12_MissingAttributeIsIsolated ==
    ( /\ out.producer \in Producers
      /\ ~out.inspector_raised
      /\ ~CarriesAttributes(out.instance) \/ out.instance.flavor = None ) =>
        ~out.raised

(***************************************************************************)
(* C13.  Checked against the code, the claim fails: a failed inspect_disks *)
(* leaves nothing in the cache that would stop the next call.              *)
(***************************************************************************)
\* C13: once inspect_disks has failed for an instance in this cycle (the
\* last call was that failure and the cycle's count for the instance is not
\* reset), no step calls inspect_disks for that instance again before the
\* cycle ends.
C13_NoRetryWithinCycle ==
    [][ \A n \in InstanceNames :
            ( /\ out.producer = "disk"
              /\ out.inspector_raised
              /\ out.instance.instance_name = n
              /\ inspect_disks_calls[n] >= 1 ) =>
                inspect_disks_calls'[n] <= inspect_disks_calls[n] ]_vars

(***************************************************************************)
(* C14.  Checked against the code, the claim fails: the samples of the     *)
(* vNICs enumerated before the failure are already with the consumer.      *)
(***************************************************************************)
\* C14: a network pollster call that meets a failure, in the enumeration of
\* the vNICs or in the construction of a sample, hands its consumer no
\* sample at all.
C14_NoSampleOnFailure ==
    ( /\ out.producer = "net"
      /\ out.inspector_raised \/ ~CarriesIdentity(out.instance) ) =>
        out.samples = <<>>

(***************************************************************************)
(* C15.  As stated the claim fails: a call whose inspection returned but   *)
(* whose samples could not be built emits nothing and has already written  *)
(* the tracker.                                                            *)
(***************************************************************************)
\* C15 as stated: a CPU call whose inspect_cpus raised emits nothing, raises
\* nothing and leaves the tracker entry of the instance as it was; and every
\* CPU call that emits nothing leaves that entry as it was.
C15_SilentCallLeavesTracker ==
    out.producer = "cpu" =>
        /\ out.inspector_raised =>
               /\ out.samples = <<>>
               /\ ~out.raised
               /\ Entry(utilization_map, out.instance.id)
                      = Entry(out.before, out.instance.id)
        /\ out.samples = <<>> =>
               Entry(utilization_map, out.instance.id)
                   = Entry(out.before, out.instance.id)

\* C15, amended: a CPU call whose inspect_cpus raised emits nothing, raises
\* nothing and leaves the whole tracker as it was; a CPU call whose
\* inspect_cpus returned and that emits nothing raises nothing either, and
\* has replaced the entry by (cumulative_time, time of the call).
C15_FailedInspectionLeavesTracker ==
    out.producer = "cpu" =>
        /\ out.inspector_raised =>
               /\ out.samples = <<>>
               /\ ~out.raised
               /\ utilization_map = out.before
        /\ (~out.inspector_raised /\ out.samples = <<>>) =>
               /\ ~out.raised
               /\ Entry(utilization_map, out.instance.id)
                      = <<out.inspected.time, out.now>>

C15_Witness ==
    /\ out.producer = "cpu"
    /\ out.inspector_raised
    /\ out.samples = <<>>
    /\ out.instance.id \in DOMAIN out.before
    /\ out.before[out.instance.id] = <<9000, At(0, 4)>>
    /\ utilization_map[out.instance.id] = <<9000, At(0, 4)>>

(***************************************************************************)
(* C16.  Checked against the code, the claim fails: nothing keeps a second *)
(* thread from looking the entry up between the lookup and the store of    *)
(* the first.                                                              *)
(***************************************************************************)
\* C16: no two threads are at the same time between their lookup and their
\* store of the tracker entry of one instance id (two threads that are have
\* both read the same previous entry, and the store of the first is lost to
\* the rate of the second).
C16_ReadThenWriteIsAtomic ==
    \A t1, t2 \in Threads :
        ( /\ t1 # t2
          /\ running[t1].pc = "store"
          /\ running[t2].pc = "store" ) =>
            running[t1].id # running[t2].id

(***************************************************************************)
(* C17.                                                                    *)
(***************************************************************************)
\* C17: the step that starts a cycle empties the cache and leaves the
\* tracker as it is; the step that puts an instance's aggregate into the
\* cache is a disk pollster call that called inspect_disks, and its samples
\* carry the readings of that call; a CPU call computes against the tracker
\* entry it finds, whichever cycle wrote it.
C17_CacheDiesTrackerLives ==
    [][ /\ (cache # EmptyMap /\ cache' = EmptyMap) =>
               utilization_map' = utilization_map
        /\ \A n \in InstanceNames :
               (~InCache(cache, n) /\ InCache(cache', n)) =>
                   /\ out'.producer = "disk"
                   /\ out'.instance.instance_name = n
                   /\ out'.called
                   /\ inspect_disks_calls'[n] = inspect_disks_calls[n] + 1
                   /\ CarriesAttributes(out'.instance) =>
                          /\ Len(out'.samples) = 4
                          /\ \A i \in 1..4 :
                                 out'.samples[i].volume =
                                     Total(out'.inspected.disks, DiskFields[i],
                                           Len(out'.inspected.disks))
        /\ (out'.producer = "cpu" /\ out' # out /\ ~out'.inspector_raised) =>
               out'.util.prev_times = Entry(utilization_map, out'.instance.id)
      ]_vars

\* A cycle has ended: the aggregate the last disk call cached is gone, the
\* tracker entry is still there.
C17_Witness ==
    /\ out.producer = "disk"
    /\ out.called
    /\ InCache(out.after, "instance-00000001")
    /\ cache = EmptyMap
    /\ inspect_disks_calls = NoCalls
    /\ "i-1" \in DOMAIN utilization_map

(***************************************************************************)
(* C18.  In every sample any producer emits, resource_metadata has no key  *)
(* named after an identity field (user_id, project_id, resource_id).  A    *)
(* user's key in the reserved namespace 'metering.' never takes the place  *)
(* of a key of resource_metadata: stripped of the prefix, '.' turned into  *)
(* '_', it is dropped when it equals an existing key ('metering.host',     *)
(* 'metering.disk.gb'), and otherwise it is found under 'user_metadata'    *)
(* and nowhere else ('stack', 'a_b', 'user_id'); keys outside the          *)
(* namespace ('owner') are not copied; the keys the code sets keep the     *)
(* values of the instance; a network sample has the vNIC's keys only.      *)
(***************************************************************************)
IdentityKeys == {"user_id", "project_id", "resource_id"}

\* For each key of UserKeys the name it is expected under, if any.
ExpectedUserKey ==
    [ k \in UserKeys |->
        CASE k = << "metering", ".", "stack" >>           -> << "stack" >>
          [] k = << "metering", ".", "user", "_", "id" >> -> << "user", "_", "id" >>
          [] k = << "metering", ".", "a", ".", "b" >>     -> << "a", "_", "b" >>
          [] OTHER                                         -> << >> ]

ExpectedUserKeys(instance) ==
    { ExpectedUserKey[k] : k \in DOMAIN instance.metadata } \ { << >> }

UserMetadataOf(sample) ==
    IF "user_metadata" \in DOMAIN sample.resource_metadata
    THEN sample.resource_metadata.user_metadata
    ELSE EmptyMap

C19_TrackerFrame ==
    [][ /\ (DOMAIN utilization_map) \subseteq (DOMAIN utilization_map')
        /\ \A id \in DOMAIN utilization_map' :
               Entry(utilization_map', id) # Entry(utilization_map, id)
                   => out'.producer = "cpu" /\ out'.instance.id = id
        /\ out'.producer # "cpu" => utilization_map' = utilization_map
      ]_vars

\* i-2 was just observed and its entry written while i-1, tracked in an
\* earlier call, kept its entry.
C19_Witness ==
    /\ out.producer = "cpu"
    /\ out.instance.id = "i-2"
    /\ "i-1" \in DOMAIN out.before
    /\ "i-2" \in DOMAIN out.before
    /\ utilization_map["i-1"] = out.before["i-1"]
    /\ utilization_map["i-2"] # out.before["i-2"]

(***************************************************************************)
(* C20.  Whatever the sequence of CPU observations of an instance, the     *)
(* cumulative times rising, equal or reset to a smaller value, the clock   *)
(* readings in any order, every cpu_util sample that is emitted has a      *)
(* volume that is not negative: the fraction's numerator is >= 0 and its   *)
(* two denominators, cores and elapsed time, are > 0.                      *)
(***************************************************************************)
Sign(n) == IF n < 0 THEN -1 ELSE IF n = 0 THEN 0 ELSE 1

C20_CpuUtilNeverNegative ==
    out.producer = "cpu" =>
        \A i \in 1..Len(out.samples) :
            out.samples[i].name = "cpu_util" =>
                LET volume == out.samples[i].volume IN
                    /\ Sign(volume.cores) # 0
                    /\ NanosSign(volume.elapsed) # 0
                    /\ volume.elapsed.ns >= 0
                    /\ Sign(volume.num) * Sign(volume.cores)
                           * NanosSign(volume.elapsed) >= 0

\* The counter was reset from 9000 to 100 and the clock read earlier than
\* at the previous observation: the sample is emitted, its volume positive.
C20_Witness ==
    /\ HasBaseline
    /\ Prev[1] = 9000
    /\ out.inspected.time = 100
    /\ Prev[2] = At(0, 4)
    /\ out.now = At(0, 0)
    /\ Len(out.samples) = 2
    /\ out.samples[1].name = "cpu_util"
    /\ out.samples[1].volume.num = 100 * Percent

(***************************************************************************)
(* C21.  _statistics does not raise on a failed retrieval: when the HTTP   *)
(* request raises, or the response's status is outside 200..299, it        *)
(* returns the empty list.  Only a response with a status in 200..299      *)
(* returns the decoded body, which is then the list of datapoints the      *)
(* store wrote.  _sanitize keeps, in their order, exactly the values of    *)
(* the datapoints whose granularity is the granularity of the alarm's      *)
(* rule.                                                                   *)
(***************************************************************************)
RetrievalFailed ==
    \/ IsErr(out.response)
    \/ out.response.status_code < 200
    \/ out.response.status_code > 299

\* The positions of the datapoints at the rule's granularity.
Matching ==
    { i \in 1..Len(out.statistics) :
          out.statistics[i][2] = out.alarm.rule.granularity }

C21_FailedRetrievalGivesNoStatistics ==
    out.producer = "gnocchi" =>
        /\ RetrievalFailed => ~out.raised /\ out.statistics = << >>
        /\ ~RetrievalFailed =>
               \A points \in PointLists :
                   out.response.text = Dumps(points) =>
                       ~out.raised /\ out.statistics = points
        /\ out.op = "_sanitize" =>
               /\ Len(out.sanitized) = Cardinality(Matching)
               /\ \A i \in Matching :
                      out.sanitized[Cardinality({ j \in Matching : j <= i })] =
                          out.statistics[i][3]

\* A 404 whose body would have decoded to two datapoints: nothing raised,
\* no statistics returned, nothing left after _sanitize.
C21_Witness ==
    /\ out.producer = "gnocchi"
    /\ out.op = "_sanitize"
    /\ ~IsErr(out.response)
    /\ out.response.status_code = 404
    /\ out.response.text = Dumps(<< PointOf(1, 60), PointOf(2, 60) >>)
    /\ ~out.raised
    /\ out.statistics = << >>
    /\ out.sanitized = << >>

====
